---- MODULE Spec2Model ----
(***************************************************************************)
(* Model of Laba_3.cpp: a producer thread enumerates the input directory   *)
(* and pushes one task per accepted image file into a BlockingQueue, then  *)
(* NUM_CONSUMERS empty tasks; NUM_CONSUMERS consumer threads pop tasks and *)
(* invert the images; main() creates the output directory, starts the      *)
(* threads, joins them and prints the completion line.                     *)
(*                                                                         *)
(* Strings are sequences of characters.  The regions of push() and pop()   *)
(* that run with BlockingQueue::mutex held touch nothing but the queue, so *)
(* each is one atomic step; cond_var.wait releases the mutex and blocks in *)
(* the same step.  notify_one runs after the mutex is released and is a    *)
(* step of its own.                                                        *)
(***************************************************************************)
EXTENDS Integers, Sequences, FiniteSets, TLC

\* ---------------------------------------------------------------- bounds
\* largest number of entries in the input directory
MaxEntries == 2

\* largest number of entries in the input directory in the runs that are
\* checked for termination
MaxLiveEntries == 1

\* ------------------------------------------------------------- constants
NUM_CONSUMERS == 4

INPUT_DIR == <<"input_images">>

OUTPUT_DIR == <<"output_images">>

Consumers == 1..NUM_CONSUMERS

\* ------------------------------------------------- the directory entries
\* file names that the input directory may hold
NameA == <<"a", ".", "j", "p", "g">>

NameC == <<"c", ".", "p", "n", "g">>

NameD == <<"d", ".", "j", "p", "e", "g">>

NameB == <<"b", ".", "t", "x", "t">>

NameH == <<".", "h", ".", "p", "n", "g">>

NameG == <<"g", ".", "p", "n", "g">>

\* an entry of the directory: its file name, whether is_regular_file(),
\* whether cv::imread decodes its content, and whether cv::imwrite can
\* write the output file made for it
Catalogue ==
    { [name |-> NameA, regular |-> TRUE, image |-> TRUE, writable |-> TRUE],
      [name |-> NameC, regular |-> TRUE, image |-> FALSE, writable |-> TRUE],
      [name |-> NameD, regular |-> TRUE, image |-> TRUE, writable |-> FALSE],
      [name |-> NameB, regular |-> TRUE, image |-> FALSE, writable |-> TRUE],
      [name |-> NameH, regular |-> TRUE, image |-> TRUE, writable |-> TRUE],
      [name |-> NameG, regular |-> FALSE, image |-> FALSE, writable |-> TRUE] }

Names == { e.name : e \in Catalogue }

\* ------------------------------------------------------- pure functions
\* position of the last "." of s, 0 when there is none
RECURSIVE LastDot(_, _)
LastDot(s, i) ==
    IF i = 0 THEN 0
    ELSE IF s[i] = "." THEN i
    ELSE LastDot(s, i - 1)

\* fs::path::extension() of a file name: from the last dot to the end,
\* empty when there is no dot, when the only dot is the first character,
\* and for "." and ".."
Extension(s) ==
    LET p == LastDot(s, Len(s))
    IN  IF s = <<".">> \/ s = <<".", ".">> THEN <<>>
        ELSE IF p <= 1 THEN <<>>
        ELSE SubSeq(s, p, Len(s))

\* a variant of FirstIsDot that finds no name hidden
FirstIsDotNever(file_name) == FALSE

\* file_name[0] == '.'; on an empty string operator[] yields '\0'
FirstIsDot(file_name) == Len(file_name) > 0 /\ file_name[1] = "."

\* isHiddenFile(file_name), lines 60-62: return file_name[0] == '.'
isHiddenFile(file_name) == Len(file_name) > 0 /\ file_name[1] = "."

\* a variant of IsImageExt that takes every file with an extension
IsImageExtAny(ext) == ext # <<>>

\* the test of the extension in producer()
IsImageExt(ext) ==
    \/ ext = <<".", "j", "p", "e", "g">>
    \/ ext = <<".", "j", "p", "g">>
    \/ ext = <<".", "p", "n", "g">>

\* entry.path().string()
FilePath(file_name) == INPUT_DIR \o <<"/">> \o file_name

\* output_path of consumer(), line 129
OutputPath(file_name) == OUTPUT_DIR \o <<"/", "inverted_">> \o file_name

\* a variant of FileTask that pushes a default-constructed pair
FileTaskBlank(file_name) == <<<<>>, <<>>>>

\* the task producer() pushes for a file
FileTask(file_name) == <<file_name, FilePath(file_name)>>

\* a default-constructed std::pair<std::string, std::string>, also the
\* value producer() pushes to stop a consumer
EmptyTask == <<<<>>, <<>>>>

\* the termination test of consumer()
IsStopTask(t) == Len(t[1]) = 0 /\ Len(t[2]) = 0

VARIABLES
    outDir,       \* OUTPUT_DIR on disk: "absent" or "dir"
    inputExists,  \* does INPUT_DIR exist
    dir,          \* the entries of INPUT_DIR
    remaining,    \* entries the directory_iterator has not yielded yet
    mpc,          \* main(): position
    mi,           \* main(): loop index
    ppc,          \* producer(): position
    psent,        \* producer(): i of the final loop
    queue,        \* BlockingQueue::queue
    cpc,          \* consumer(): position, per thread
    task,         \* consumer(): the local task, per thread
    popRet,       \* consumer(): what pop() has just returned, per thread
    stopped,      \* has BlockingQueue::stop() been called
    mainOut,      \* the lines main() has written to std::cout
    pushLog,      \* history: the values pushed, in the order of queue.push
    popLog,       \* history: the values removed, in the order of queue.pop
    stopPops,     \* history: per consumer, how many empty tasks pop() gave it
    handled,      \* history: per file name, how many times a consumer
                  \* reached "Processing" with it
    outcome       \* history: per file name, how its processing ended

vars == <<outDir, inputExists, dir, remaining, mpc, mi, ppc, psent,
          queue, cpc, task, popRet, stopped, mainOut, pushLog, popLog,
          stopPops, handled, outcome>>

mainVars == <<outDir, mpc, mi>>

prodVars == <<remaining, ppc, psent>>

histVars == <<pushLog, popLog, stopPops, handled, outcome>>

envVars == <<inputExists, dir>>

sideVars == <<stopped, mainOut>>

\* the process is running: nothing has called std::terminate and main()
\* has not returned
Running == mpc \notin {"aborted", "returned"}

Init ==
    /\ outDir \in {"absent", "dir"}
    /\ inputExists \in BOOLEAN
    /\ dir \in { d \in SUBSET Catalogue : Cardinality(d) <= MaxEntries }
    /\ (~inputExists => dir = {})
    /\ remaining = dir
    /\ mpc = "check_out"
    /\ mi = 0
    /\ ppc = "unstarted"
    /\ psent = 0
    /\ queue = <<>>
    /\ cpc = [c \in Consumers |-> "unstarted"]
    /\ task = [c \in Consumers |-> EmptyTask]
    /\ popRet = [c \in Consumers |-> FALSE]
    /\ stopped = FALSE
    /\ mainOut = <<>>
    /\ pushLog = <<>>
    /\ popLog = <<>>
    /\ stopPops = [c \in Consumers |-> 0]
    /\ handled = [n \in Names |-> 0]
    /\ outcome = [n \in Names |-> "none"]

\* ------------------------------------------------------ BlockingQueue
\* a variant of PushBody that puts the value at the front
PushBodyFront(value) ==
    /\ queue' = <<value>> \o queue
    /\ pushLog' = Append(pushLog, value)

\* push(), lines 23-27: queue.push(value) under the lock_guard
PushBody(value) ==
    /\ queue' = Append(queue, value)
    /\ pushLog' = Append(pushLog, value)

\* a variant of NotifyOne that wakes nobody
NotifyNobody == UNCHANGED cpc

\* cond_var.notify_one(): wakes one of the threads waiting, if any
NotifyOne ==
    IF \E c \in Consumers : cpc[c] = "waiting"
    THEN \E c \in Consumers :
            /\ cpc[c] = "waiting"
            /\ cpc' = [cpc EXCEPT ![c] = "woken"]
    ELSE UNCHANGED cpc

\* a variant of WaitPred: a wait that gives up when it is woken
WaitPredAlways(q) == TRUE

\* the predicate of cond_var.wait in pop()
WaitPred(q) == q # <<>>

\* a variant of PopTake that reads the front and leaves it in the queue
PopTakeKeepsHead(q, v) ==
    IF q = <<>>
    THEN [ret |-> FALSE, value |-> v, queue |-> q]
    ELSE [ret |-> TRUE, value |-> Head(q), queue |-> q]

\* a variant of PopTake that takes the newest element
PopTakeBack(q, v) ==
    IF q = <<>>
    THEN [ret |-> FALSE, value |-> v, queue |-> q]
    ELSE [ret |-> TRUE, value |-> q[Len(q)],
          queue |-> SubSeq(q, 1, Len(q) - 1)]

\* pop(), lines 38-43, on queue q with the caller's value v: the value
\* returned, the caller's value and the queue afterwards
PopTake(q, v) ==
    IF q = <<>>
    THEN [ret |-> FALSE, value |-> v, queue |-> q]
    ELSE [ret |-> TRUE, value |-> Head(q), queue |-> Tail(q)]

\* pop(), lines 34-43 from the point where the caller holds the mutex:
\* if the predicate is false the caller waits, else it removes the head
\* and returns
PopBody(c) ==
    IF WaitPred(queue)
    THEN LET r == PopTake(queue, task[c])
         IN  /\ queue' = r.queue
             /\ task' = [task EXCEPT ![c] = r.value]
             /\ popRet' = [popRet EXCEPT ![c] = r.ret]
             /\ popLog' = IF r.ret THEN Append(popLog, r.value) ELSE popLog
             /\ stopPops' = IF r.ret /\ IsStopTask(r.value)
                            THEN [stopPops EXCEPT ![c] = @ + 1]
                            ELSE stopPops
             /\ cpc' = [cpc EXCEPT ![c] = "test"]
    ELSE /\ cpc' = [cpc EXCEPT ![c] = "waiting"]
         /\ UNCHANGED <<queue, task, popRet, popLog, stopPops>>

\* line 104, task_queue.pop(task): the call
PopEnter(c) ==
    /\ Running
    /\ cpc[c] = "pop"
    /\ PopBody(c)
    /\ UNCHANGED <<mainVars, prodVars, envVars, sideVars, pushLog, handled, outcome>>

\* cond_var.wait returns from blocking, after a notification, takes the
\* mutex again and tests the predicate again
PopWoken(c) ==
    /\ Running
    /\ cpc[c] = "woken"
    /\ PopBody(c)
    /\ UNCHANGED <<mainVars, prodVars, envVars, sideVars, pushLog, handled, outcome>>

\* cond_var.wait may stop blocking without a notification
SpuriousWake(c) ==
    /\ Running
    /\ cpc[c] = "waiting"
    /\ cpc' = [cpc EXCEPT ![c] = "woken"]
    /\ UNCHANGED <<mainVars, prodVars, envVars, sideVars, histVars, queue, task, popRet>>

\* stop(), lines 46-48: cond_var.notify_all() wakes every thread waiting.
\* The program never calls it; a caller outside the three thread functions
\* makes the call, once
QueueStop ==
    /\ Running
    /\ ~stopped
    /\ stopped' = TRUE
    /\ cpc' = [c \in Consumers |->
                 IF cpc[c] = "waiting" THEN "woken" ELSE cpc[c]]
    /\ UNCHANGED <<mainVars, prodVars, envVars, mainOut, histVars, queue,
                   task, popRet>>

\* ------------------------------------------------------------ producer
\* a variant of MoreSentinels that takes one turn more
MoreSentinelsOneMore(i) == i < NUM_CONSUMERS + 1

\* a variant of MoreSentinels that stops one turn early
MoreSentinelsOneLess(i) == i < NUM_CONSUMERS - 1

\* line 95: the test i < NUM_CONSUMERS of the final loop
MoreSentinels(i) == i < NUM_CONSUMERS

\* line 65: the directory_iterator is constructed; a missing directory
\* throws filesystem_error out of the thread function: std::terminate
ProducerOpen ==
    /\ Running
    /\ ppc = "open"
    /\ IF inputExists
       THEN /\ ppc' = "iter"
            /\ UNCHANGED mpc
       ELSE /\ mpc' = "aborted"
            /\ UNCHANGED ppc
    /\ UNCHANGED <<outDir, mi, remaining, psent, envVars, sideVars, histVars,
                   queue, cpc, task, popRet>>

\* lines 65-91, one turn of the loop up to the notify_one of push: the
\* iterator yields the entries in an unspecified order; after the last one
\* the final loop starts with i = 0
ProducerEntry ==
    /\ Running
    /\ ppc = "iter"
    /\ IF remaining = {}
       THEN /\ ppc' = IF MoreSentinels(psent) THEN "s_push" ELSE "done"
            /\ UNCHANGED <<remaining, queue, pushLog>>
       ELSE \E e \in remaining :
            /\ remaining' = remaining \ {e}
            /\ IF ~e.regular
               THEN UNCHANGED <<ppc, queue, pushLog>>
               ELSE IF FirstIsDot(e.name)
                    THEN UNCHANGED <<ppc, queue, pushLog>>
                    ELSE IF IsImageExt(Extension(e.name))
                         THEN /\ PushBody(FileTask(e.name))
                              /\ ppc' = "f_notify"
                         ELSE UNCHANGED <<ppc, queue, pushLog>>
    /\ UNCHANGED <<mainVars, psent, envVars, sideVars, popLog, stopPops, handled, outcome, cpc,
                   task, popRet>>

\* line 85: the notify_one of push, then the next turn of the loop
ProducerFileNotify ==
    /\ Running
    /\ ppc = "f_notify"
    /\ NotifyOne
    /\ ppc' = "iter"
    /\ UNCHANGED <<mainVars, remaining, psent, envVars, sideVars, histVars,
                   queue, task, popRet>>

\* line 96, task_queue.push({"", ""}): up to the notify_one
ProducerSentPush ==
    /\ Running
    /\ ppc = "s_push"
    /\ PushBody(EmptyTask)
    /\ ppc' = "s_notify"
    /\ UNCHANGED <<mainVars, remaining, psent, envVars, sideVars, popLog, stopPops,
                   handled, outcome, cpc, task, popRet>>

\* line 96: the notify_one of push; line 95: ++i and the test
ProducerSentNotify ==
    /\ Running
    /\ ppc = "s_notify"
    /\ NotifyOne
    /\ psent' = psent + 1
    /\ ppc' = IF MoreSentinels(psent + 1) THEN "s_push" ELSE "done"
    /\ UNCHANGED <<mainVars, remaining, envVars, sideVars, histVars, queue,
                   task, popRet>>

\* ------------------------------------------------------------ consumer
\* a variant of ConsumerTest that goes on with the loop after an empty task
ConsumerTestContinues(c) ==
    /\ Running
    /\ cpc[c] = "test"
    /\ IF IsStopTask(task[c]) \/ isHiddenFile(task[c][1])
       THEN /\ cpc' = [cpc EXCEPT ![c] = "pop"]
            /\ task' = [task EXCEPT ![c] = EmptyTask]
            /\ UNCHANGED handled
       ELSE /\ cpc' = [cpc EXCEPT ![c] = "process"]
            /\ handled' = [handled EXCEPT ![task[c][1]] = @ + 1]
            /\ UNCHANGED task
    /\ popRet' = [popRet EXCEPT ![c] = FALSE]
    /\ UNCHANGED <<mainVars, prodVars, envVars, sideVars, pushLog, popLog, stopPops,
                   outcome, queue>>

\* lines 107-117: the tests on the task pop() delivered
ConsumerTest(c) ==
    /\ Running
    /\ cpc[c] = "test"
    /\ IF IsStopTask(task[c])
       THEN /\ cpc' = [cpc EXCEPT ![c] = "done"]
            /\ UNCHANGED <<task, handled>>
       ELSE IF isHiddenFile(task[c][1])
            THEN /\ cpc' = [cpc EXCEPT ![c] = "pop"]
                 /\ task' = [task EXCEPT ![c] = EmptyTask]
                 /\ UNCHANGED handled
            ELSE /\ cpc' = [cpc EXCEPT ![c] = "process"]
                 /\ handled' = [handled EXCEPT ![task[c][1]] = @ + 1]
                 /\ UNCHANGED task
    /\ popRet' = [popRet EXCEPT ![c] = FALSE]
    /\ UNCHANGED <<mainVars, prodVars, envVars, sideVars, pushLog, popLog, stopPops,
                   outcome, queue>>

\* cv::imread(path).empty() is false: the file is there and decodes
ImreadOk(path) ==
    \E e \in dir : e.regular /\ FilePath(e.name) = path /\ e.image

\* cv::imwrite(path, image) returns true
ImwriteOk(path) ==
    \E e \in dir : OutputPath(e.name) = path /\ e.writable

\* lines 120-134 for a task: how the processing ends
ProcessResult(t) ==
    IF ~ImreadOk(t[2]) THEN "readfail"
    ELSE IF ImwriteOk(OutputPath(t[1])) THEN "saved"
    ELSE "writefail"

\* a variant of ConsumerProcess that leaves the loop when the processing
\* fails
ConsumerProcessStopsOnError(c) ==
    /\ Running
    /\ cpc[c] = "process"
    /\ outcome' = [outcome EXCEPT ![task[c][1]] = ProcessResult(task[c])]
    /\ cpc' = [cpc EXCEPT ![c] = IF ProcessResult(task[c]) = "saved"
                                  THEN "pop" ELSE "done"]
    /\ task' = [task EXCEPT ![c] = EmptyTask]
    /\ UNCHANGED <<mainVars, prodVars, envVars, sideVars, pushLog, popLog, stopPops,
                   handled, queue, popRet>>

\* lines 120-134: imread, bitwise_not, imwrite, then the next turn of the
\* loop
ConsumerProcess(c) ==
    /\ Running
    /\ cpc[c] = "process"
    /\ outcome' = [outcome EXCEPT ![task[c][1]] = ProcessResult(task[c])]
    /\ cpc' = [cpc EXCEPT ![c] = "pop"]
    /\ task' = [task EXCEPT ![c] = EmptyTask]
    /\ UNCHANGED <<mainVars, prodVars, envVars, sideVars, pushLog, popLog, stopPops,
                   handled, queue, popRet>>

\* ---------------------------------------------------------------- main
\* a variant of MainOutDir that goes on without the directory
MainOutDirNoCreate ==
    /\ mpc = "check_out"
    /\ outDir' = outDir
    /\ mpc' = "start_producer"
    /\ UNCHANGED <<mi, prodVars, envVars, sideVars, histVars, queue, cpc, task,
                   popRet>>

\* lines 143-145: create_directory throws when it cannot create
MainOutDir ==
    /\ mpc = "check_out"
    /\ IF outDir = "absent"
       THEN \/ outDir' = "dir" /\ mpc' = "start_producer"
            \/ outDir' = outDir /\ mpc' = "aborted"
       ELSE outDir' = outDir /\ mpc' = "start_producer"
    /\ UNCHANGED <<mi, prodVars, envVars, sideVars, histVars, queue, cpc, task,
                   popRet>>

\* line 148
MainStartProducer ==
    /\ mpc = "start_producer"
    /\ ppc' = "open"
    /\ mpc' = "start_consumers"
    /\ mi' = 0
    /\ UNCHANGED <<outDir, remaining, psent, envVars, sideVars, histVars, queue,
                   cpc, task, popRet>>

\* lines 150-153
MainStartConsumer ==
    /\ mpc = "start_consumers"
    /\ IF mi < NUM_CONSUMERS
       THEN /\ cpc' = [cpc EXCEPT ![mi + 1] = "pop"]
            /\ mi' = mi + 1
            /\ UNCHANGED mpc
       ELSE /\ mpc' = "join_producer"
            /\ UNCHANGED <<cpc, mi>>
    /\ UNCHANGED <<outDir, prodVars, envVars, sideVars, histVars, queue, task,
                   popRet>>

\* a variant of MainJoinProducer that does not wait for the thread
MainJoinProducerNoWait ==
    /\ mpc = "join_producer"
    /\ mpc' = "join_consumers"
    /\ mi' = 0
    /\ UNCHANGED <<outDir, prodVars, envVars, sideVars, histVars, queue, cpc,
                   task, popRet>>

\* line 156
MainJoinProducer ==
    /\ mpc = "join_producer"
    /\ ppc = "done"
    /\ mpc' = "join_consumers"
    /\ mi' = 0
    /\ UNCHANGED <<outDir, prodVars, envVars, sideVars, histVars, queue, cpc,
                   task, popRet>>

\* a variant of MainJoinConsumer that does not wait for the threads
MainJoinConsumerNoWait ==
    /\ mpc = "join_consumers"
    /\ IF mi < NUM_CONSUMERS
       THEN /\ mi' = mi + 1
            /\ UNCHANGED mpc
       ELSE /\ mpc' = "report"
            /\ UNCHANGED mi
    /\ UNCHANGED <<outDir, prodVars, envVars, sideVars, histVars, queue, cpc,
                   task, popRet>>

\* lines 157-159
MainJoinConsumer ==
    /\ mpc = "join_consumers"
    /\ IF mi < NUM_CONSUMERS
       THEN /\ cpc[mi + 1] = "done"
            /\ mi' = mi + 1
            /\ UNCHANGED mpc
       ELSE /\ mpc' = "report"
            /\ UNCHANGED mi
    /\ UNCHANGED <<outDir, prodVars, envVars, sideVars, histVars, queue, cpc,
                   task, popRet>>

\* lines 161-162: "[Main] All tasks completed", return 0
MainReport ==
    /\ mpc = "report"
    /\ mainOut' = Append(mainOut, [text |-> "[Main] All tasks completed"])
    /\ mpc' = "returned"
    /\ UNCHANGED <<outDir, mi, prodVars, envVars, stopped, histVars, queue,
                   cpc, task, popRet>>

\* ------------------------------------------------------- specification
ProducerStep ==
    \/ ProducerOpen
    \/ ProducerEntry
    \/ ProducerFileNotify
    \/ ProducerSentPush
    \/ ProducerSentNotify

\* the steps a consumer thread takes when it is scheduled
ConsumerRun(c) ==
    \/ PopEnter(c)
    \/ PopWoken(c)
    \/ ConsumerTest(c)
    \/ ConsumerProcess(c)

MainStep ==
    \/ MainOutDir
    \/ MainStartProducer
    \/ MainStartConsumer
    \/ MainJoinProducer
    \/ MainJoinConsumer
    \/ MainReport

Next ==
    \/ MainStep
    \/ ProducerStep
    \/ \E c \in Consumers : ConsumerRun(c)
    \/ \E c \in Consumers : SpuriousWake(c)

Spec == Init /\ [][Next]_vars

\* every thread that can run is scheduled again and again; a wait returns
\* without a notification only when the environment chooses so
LiveInit == Init /\ Cardinality(dir) <= MaxLiveEntries

FairSpec ==
    /\ LiveInit
    /\ [][Next]_vars
    /\ WF_vars(MainStep)
    /\ WF_vars(ProducerStep)
    /\ \A c \in Consumers : WF_vars(ConsumerRun(c))

\* the program with a caller of stop() beside it
NextStop == Next \/ QueueStop

StopSpec == LiveInit /\ [][NextStop]_vars

TypeOK ==
    /\ mi \in 0..NUM_CONSUMERS
    /\ psent \in 0..NUM_CONSUMERS

\* ------------------------------------------------------------- helpers
Range(s) == { s[i] : i \in DOMAIN s }

Occurrences(s, x) == Cardinality({ i \in DOMAIN s : s[i] = x })

CountStops(s) == Cardinality({ i \in DOMAIN s : IsStopTask(s[i]) })

\* the file tasks pushed so far
PushedFiles == { t \in Range(pushLog) : ~IsStopTask(t) }

\* a consumer holds a task it got from pop()
Holding(c) == cpc[c] \in {"test", "process"}

AllConsumersDone == \A c \in Consumers : cpc[c] = "done"

\* an entry as the filter is described: a regular file whose name does not
\* start with '.' and whose extension is .jpeg, .jpg or .png
AcceptedEntry(e) ==
    /\ e.regular
    /\ e.name[1] # "."
    /\ Extension(e.name) \in { <<".", "j", "p", "e", "g">>,
                               <<".", "j", "p", "g">>,
                               <<".", "p", "n", "g">> }

Failed(r) == r \in {"readfail", "writefail"}

\* --------------------------------------------------------------- claims
\* C1: no loss, no duplication.  Every file task is popped at most once and
\* reaches "Processing" at most once, only tasks the producer pushed are
\* processed, no two consumers hold the same file task, and when main()
\* has returned every file task pushed was popped once and processed once.
C1_NoLossNoDuplication ==
    /\ \A n \in Names : handled[n] <= 1
    /\ \A n \in Names : Occurrences(popLog, FileTask(n)) <= 1
    /\ \A n \in Names : Occurrences(pushLog, FileTask(n)) <= 1
    /\ \A n \in Names : handled[n] > 0 => FileTask(n) \in PushedFiles
    /\ \A c1, c2 \in Consumers :
          (c1 # c2 /\ Holding(c1) /\ Holding(c2) /\ ~IsStopTask(task[c1]))
              => task[c1] # task[c2]
    /\ mpc = "returned" =>
          \A t \in PushedFiles :
              handled[t[1]] = 1 /\ Occurrences(popLog, t) = 1

\* C1: main() has returned after two file tasks were processed
C1_Witness ==
    /\ mpc = "returned"
    /\ Cardinality({ n \in Names : handled[n] = 1 }) = 2

\* C2: termination.  Under fair scheduling, once main() is about to start
\* the threads on an existing input directory, the producer and all the
\* consumers end.
C2_Termination ==
    (mpc = "start_producer" /\ inputExists)
        ~> (ppc = "done" /\ AllConsumersDone)

\* C2: all threads have ended after a file task went through the queue
C2_Witness ==
    /\ ppc = "done"
    /\ AllConsumersDone
    /\ Len(popLog) = NUM_CONSUMERS + 1

\* C3: join semantics.  Where main() prints "All tasks completed", and
\* after it, the producer has ended and every consumer has left its loop.
C3_JoinSemantics ==
    mpc \in {"report", "returned"} => (ppc = "done" /\ AllConsumersDone)

\* C3: main() has printed the line
C3_Witness == mpc = "returned" /\ stopPops = [c \in Consumers |-> 1]

\* C4: all-or-nothing completion.  When main() has returned, every accepted
\* entry of the directory has an outcome, no file task is in the queue and
\* no consumer holds a task.
C4_AllOrNothing ==
    mpc = "returned" =>
        /\ \A e \in dir :
              AcceptedEntry(e) =>
                  outcome[e.name] \in {"saved", "readfail", "writefail"}
        /\ \A i \in DOMAIN queue : IsStopTask(queue[i])
        /\ \A c \in Consumers : ~Holding(c)

\* C4: main() has returned after one file was saved and one failed
C4_Witness ==
    /\ mpc = "returned"
    /\ outcome[NameA] = "saved"
    /\ outcome[NameD] = "writefail"

\* C5: shutdown broadcast count.  Empty tasks are pushed only after the
\* enumeration, nothing but empty tasks is pushed after the first of them,
\* and when the producer has ended their number is NUM_CONSUMERS, which is
\* the number of consumer threads main() has started.
C5_ShutdownBroadcast ==
    /\ CountStops(pushLog) > 0 => (remaining = {} /\ ppc \notin {"iter", "f_notify"})
    /\ \A i, j \in DOMAIN pushLog :
          (i < j /\ IsStopTask(pushLog[i])) => IsStopTask(pushLog[j])
    /\ CountStops(pushLog) <= NUM_CONSUMERS
    /\ ppc = "done" => CountStops(pushLog) = NUM_CONSUMERS
    /\ (ppc = "done" /\ mpc # "start_consumers") =>
          CountStops(pushLog) =
              Cardinality({ c \in Consumers : cpc[c] # "unstarted" })

\* C5: the producer has ended on an empty directory
C5_Witness ==
    /\ ppc = "done"
    /\ inputExists
    /\ dir = {}
    /\ Len(pushLog) = NUM_CONSUMERS

\* C6, state part: a consumer gets at most one empty task, has ended only
\* if it got one, and once it got one it is at the test or has ended
C6_Inv ==
    \A c \in Consumers :
        /\ stopPops[c] <= 1
        /\ cpc[c] = "done" => stopPops[c] = 1
        /\ stopPops[c] = 1 => cpc[c] \in {"test", "done"}

\* C6, step part: a consumer that has ended stays ended and pops nothing,
\* and a consumer ends only from the test of an empty task pop() returned
C6_Step ==
    \A c \in Consumers :
        /\ cpc[c] = "done" =>
              (cpc'[c] = "done" /\ stopPops'[c] = stopPops[c]
                  /\ task'[c] = task[c])
        /\ (cpc[c] # "done" /\ cpc'[c] = "done") =>
              (cpc[c] = "test" /\ popRet[c] /\ IsStopTask(task[c]))

\* C6: worker state machine.  Each consumer ends once, right after it has
\* popped exactly one empty task; it never pops a second one and does
\* nothing on the queue after it has ended.
C6_WorkerStateMachine == []C6_Inv /\ [][C6_Step]_vars

\* C6: one consumer has ended while another is still blocked in pop()
C6_Witness ==
    \E c1, c2 \in Consumers : cpc[c1] = "done" /\ cpc[c2] = "waiting"

\* C7, step part: a consumer leaves the entry of pop(), or a wake-up, for
\* the wait when the queue is empty, and else returns true with the head,
\* which is removed
C7_Step ==
    \A c \in Consumers :
        (cpc[c] \in {"pop", "woken"} /\ cpc'[c] # cpc[c]) =>
            IF queue = <<>>
            THEN /\ cpc'[c] = "waiting"
                 /\ queue' = queue
                 /\ task'[c] = task[c]
            ELSE /\ cpc'[c] = "test"
                 /\ popRet'[c]
                 /\ task'[c] = Head(queue)
                 /\ queue' = Tail(queue)

\* C7: pop() blocks until the queue is non-empty and then removes and
\* returns the head; it never returns on an empty queue, so it returns true
\* with an element that was in the queue.
C7_PopBlocksUntilNonEmpty ==
    /\ [](\A c \in Consumers : cpc[c] = "test" => popRet[c])
    /\ [][C7_Step]_vars

\* C7: a consumer was woken and the queue is empty, because another
\* consumer has taken the task
C7_Witness ==
    \E c1, c2 \in Consumers :
        /\ cpc[c1] = "woken"
        /\ queue = <<>>
        /\ cpc[c2] = "test"
        /\ ~IsStopTask(task[c2])

\* C8: FIFO.  The values popped, in the order of their removal, followed by
\* the content of the queue, are the values pushed in the order of the
\* pushes.
C8_Fifo == pushLog = popLog \o queue

\* C8: two file tasks and an empty task have been popped
C8_Witness ==
    /\ Len(popLog) >= 3
    /\ ~IsStopTask(popLog[1])
    /\ ~IsStopTask(popLog[2])
    /\ IsStopTask(popLog[3])

\* C9: filter correctness.  Only tasks of accepted entries are pushed and
\* processed, an entry that is not accepted is never pushed, and every
\* accepted entry is pushed by the end of the enumeration and processed by
\* the time main() returns.
C9_FilterCorrectness ==
    /\ \A e \in dir :
          ~AcceptedEntry(e) =>
              (FileTask(e.name) \notin Range(pushLog) /\ handled[e.name] = 0)
    /\ \A t \in PushedFiles : \E e \in dir : AcceptedEntry(e) /\ t = FileTask(e.name)
    /\ \A n \in Names : handled[n] > 0 => \E e \in dir : AcceptedEntry(e) /\ e.name = n
    /\ ppc = "done" =>
          \A e \in dir : AcceptedEntry(e) => FileTask(e.name) \in PushedFiles
    /\ mpc = "returned" =>
          \A e \in dir : AcceptedEntry(e) => handled[e.name] >= 1

\* C9: main() has returned on a directory with an accepted and a skipped
\* entry
C9_Witness ==
    /\ mpc = "returned"
    /\ \E e \in dir : AcceptedEntry(e) /\ handled[e.name] = 1
    /\ \E e \in dir : ~AcceptedEntry(e)

\* C10, step part: the step that ends a failed processing leaves the
\* consumer at the head of its loop and changes neither the queue nor the
\* record of any other file
C10_Step ==
    \A c \in Consumers :
        (cpc[c] = "process" /\ cpc'[c] # "process"
            /\ Failed(outcome'[task[c][1]])) =>
            /\ cpc'[c] = "pop"
            /\ queue' = queue
            /\ handled' = handled
            /\ \A n \in Names : n # task[c][1] => outcome'[n] = outcome[n]

\* C10: per-item isolation.  A failed processing does not end the consumer
\* and touches no other task, and when main() has returned after a
\* failure every other file task pushed has been processed.
C10_Isolation ==
    /\ [][C10_Step]_vars
    /\ []((mpc = "returned" /\ \E n \in Names : Failed(outcome[n])) =>
             \A t \in PushedFiles : handled[t[1]] = 1 /\ outcome[t[1]] # "none")

\* C10: a processing has failed, no consumer has ended, and another file
\* task is still in the queue
C10_Witness ==
    /\ outcome[NameC] = "readfail"
    /\ \A c \in Consumers : cpc[c] \in {"pop", "waiting", "woken"}
    /\ queue # <<>>
    /\ Head(queue) = FileTask(NameA)

\* C11: enumeration failure does not hang the workers.  When producer()
\* has failed to open the input directory, NUM_CONSUMERS empty tasks have
\* been pushed all the same.
C11_SentinelsAfterEnumerationFailure ==
    (~inputExists /\ ppc = "open" /\ mpc = "aborted")
        => CountStops(pushLog) = NUM_CONSUMERS

\* files whose processing was saved
NumProcessed == Cardinality({ n \in Names : outcome[n] = "saved" })

\* files whose processing failed
NumFailed == Cardinality({ n \in Names : Failed(outcome[n]) })

\* regular entries rejected because hidden or for their extension
NumSkipped ==
    Cardinality({ e \in dir : e.regular /\ ~AcceptedEntry(e) })

\* C12: aggregate result.  When main() has returned it has written a
\* report that gives the counts processed, skipped and failed of the run.
C12_AggregateReported ==
    mpc = "returned" =>
        \E i \in DOMAIN mainOut :
            /\ {"processed", "skipped", "failed"} \subseteq DOMAIN mainOut[i]
            /\ mainOut[i].processed = NumProcessed
            /\ mainOut[i].skipped = NumSkipped
            /\ mainOut[i].failed = NumFailed

\* C13: stop() unblocks all waiters.  Once stop() has been called, a
\* thread that comes out of the wait of pop() on an empty queue returns
\* from pop(); it does not block again.
C13_StopReleasesWaiters ==
    [][\A c \in Consumers :
          (stopped /\ cpc[c] = "woken" /\ queue = <<>> /\ cpc'[c] # cpc[c])
              => cpc'[c] = "test"]_vars

\* C14, state part: when the producer has ended, so that no push and no
\* notify_one is to come, and the queue is not empty, no consumer is
\* waiting on the condition variable
C14_Inv ==
    (ppc = "done" /\ queue # <<>>) =>
        \A c \in Consumers : cpc[c] # "waiting"

\* C14: no lost wake-up.  No consumer is left waiting on a non-empty queue
\* once the pushes and notifications are over, and when a push has
\* appended its value while a consumer is blocked in pop() and none has a
\* task in hand, some consumer comes to return from pop().
C14_NoLostWakeup ==
    /\ []C14_Inv
    /\ ((ppc \in {"f_notify", "s_notify"}
            /\ (\E c \in Consumers : cpc[c] = "waiting")
            /\ (\A c \in Consumers : cpc[c] # "test"))
          ~> (\E c \in Consumers : cpc[c] = "test" /\ popRet[c]))

\* C14: a push has appended a file task and is about to notify while a
\* consumer is blocked in pop()
C14_Witness ==
    /\ ppc = "f_notify"
    /\ queue # <<>>
    /\ \E c \in Consumers : cpc[c] = "waiting"

\* the pushes done so far by the final loop of producer()
SentinelPushes == psent + (IF ppc = "s_notify" THEN 1 ELSE 0)

\* the entries the directory_iterator has yielded so far
Enumerated == dir \ remaining

ConsumersDone == { c \in Consumers : cpc[c] = "done" }

\* C15: sentinel/data separation.  No task pushed for a file is the empty
\* task: the empty tasks pushed are exactly the pushes of the final loop
\* and every other push carries the name of an accepted entry; so no
\* consumer gets an empty task or ends before the final loop has pushed
\* one, and no more consumers end than the final loop has pushed.
C15_SentinelDataSeparation ==
    /\ CountStops(pushLog) = SentinelPushes
    /\ \A e \in Enumerated :
          AcceptedEntry(e) =>
              (FileTask(e.name) \in Range(pushLog)
                   /\ ~IsStopTask(FileTask(e.name)))
    /\ Cardinality(PushedFiles) =
          Cardinality({ e \in Enumerated : AcceptedEntry(e) })
    /\ \A c \in Consumers : stopPops[c] > 0 => SentinelPushes > 0
    /\ \A c \in Consumers :
          cpc[c] = "done" => (IsStopTask(task[c]) /\ stopPops[c] = 1)
    /\ Cardinality(ConsumersDone) <= SentinelPushes

\* C15: a consumer has ended on an empty task after file tasks were
\* pushed, and another one is handling a file task
C15_Witness ==
    /\ PushedFiles # {}
    /\ \E c \in Consumers : cpc[c] = "done"
    /\ \E c \in Consumers : cpc[c] = "process"

\* C16: the output directory is there before the workers.  In every state
\* where the producer thread or a consumer thread has been started,
\* OUTPUT_DIR exists, and the step that starts a thread is taken with the
\* check of lines 143-145 already passed.
C16_DestinationBeforeWorkers ==
    /\ (ppc # "unstarted" \/ \E c \in Consumers : cpc[c] # "unstarted")
          => outDir = "dir"
    /\ mpc \in {"start_producer", "start_consumers"} => outDir = "dir"

\* C16: main is starting the consumer threads, one of them runs already
C16_Witness ==
    /\ outDir = "dir"
    /\ \E c \in Consumers : cpc[c] # "unstarted"
    /\ mpc = "start_consumers"

\* the queue holds file tasks first and empty tasks after them
FilesThenStops(q) ==
    \A i, j \in DOMAIN q : (i < j /\ IsStopTask(q[i])) => IsStopTask(q[j])

\* every accepted entry of the directory has had its task popped
AllAcceptedPopped ==
    \A e \in dir : AcceptedEntry(e) => FileTask(e.name) \in Range(popLog)

\* C17: the queue is always a run of file tasks followed by a run of empty
\* tasks, no file task sits behind an empty task; so once a consumer has
\* popped an empty task, the task of every accepted entry has been popped.
C17_FilesBeforeSentinels ==
    /\ FilesThenStops(queue)
    /\ (\E c \in Consumers : stopPops[c] > 0) => AllAcceptedPopped

\* C17: a consumer has just popped an empty task, file tasks were pushed
\* and empty tasks are still in the queue
C17_Witness ==
    /\ PushedFiles # {}
    /\ \E c \in Consumers : cpc[c] = "test" /\ IsStopTask(task[c]) /\ popRet[c]
    /\ queue # <<>>

\* the consumers that have popped an empty task
ConsumersStopped == { c \in Consumers : stopPops[c] > 0 }

\* main() is at or past the print of line 161
MainReported == mpc \in {"report", "returned"}

\* C18 as stated: the queue is empty when main() reports, and in every
\* state the empty tasks in the queue plus the consumers that have ended
\* are as many as the empty tasks pushed, at most NUM_CONSUMERS.
C18_AsStated ==
    /\ MainReported => queue = <<>>
    /\ CountStops(queue) + Cardinality(ConsumersDone) = SentinelPushes
    /\ SentinelPushes <= NUM_CONSUMERS

\* C18, amended: the queue is empty when main() reports, every task pushed
\* has been popped, NUM_CONSUMERS empty tasks among them; and in every
\* state the empty tasks in the queue plus the consumers that have popped
\* an empty task (they end at their next step, line 107) are as many as
\* the empty tasks pushed, at most NUM_CONSUMERS.  A consumer that has
\* ended is one of those that popped an empty task.
C18_QueueDrained ==
    /\ MainReported =>
          /\ queue = <<>>
          /\ Len(popLog) = Len(pushLog)
          /\ CountStops(popLog) = NUM_CONSUMERS
    /\ CountStops(queue) + Cardinality(ConsumersStopped) = SentinelPushes
    /\ ConsumersDone \subseteq ConsumersStopped
    /\ SentinelPushes <= NUM_CONSUMERS

\* C18: main() has returned after file tasks and empty tasks went through
\* the queue
C18_Witness ==
    /\ mpc = "returned"
    /\ PushedFiles # {}
    /\ queue = <<>>
    /\ Cardinality(ConsumersStopped) = NUM_CONSUMERS

\* no file task pushed, queued or held by a consumer has a hidden name
C19_Inv ==
    /\ \A t \in PushedFiles : ~isHiddenFile(t[1])
    /\ \A i \in DOMAIN queue :
          ~IsStopTask(queue[i]) => ~isHiddenFile(queue[i][1])
    /\ \A c \in Consumers :
          (Holding(c) /\ ~IsStopTask(task[c])) => ~isHiddenFile(task[c][1])

\* a consumer that tests a file task goes on to process it
C19_Step ==
    \A c \in Consumers :
        (cpc[c] = "test" /\ ~IsStopTask(task[c]) /\ cpc'[c] # cpc[c])
            => cpc'[c] = "process"

\* C19: the hidden-file test of consumer() never fires.  producer() pushes
\* only names that do not start with '.', the queue hands the values on
\* unchanged, so no consumer takes the branch of lines 112-115: every
\* popped task that is not the empty task goes on to the processing.
C19_HiddenRecheckNeverFires == []C19_Inv /\ [][C19_Step]_vars

\* C19: the directory holds a hidden image file, the producer has passed
\* it, and a consumer is processing a task
C19_Witness ==
    /\ \E e \in dir \ remaining : e.regular /\ isHiddenFile(e.name)
                                   /\ IsImageExt(Extension(e.name))
    /\ \E c \in Consumers : cpc[c] = "process"

====
